---- MODULE Spec2Model ----
(***************************************************************************)
(* Call queue scheduler of AgnoX (app/services/queue_manager.py).          *)
(*                                                                         *)
(* The store (tables call_queue and agents) is shared by every scheduler   *)
(* process; each SQL statement, each transaction commit and each gateway   *)
(* call is one atomic step, and scheduler processes interleave between     *)
(* them.  A statement or a gateway call may raise (the code catches the    *)
(* exception where the source does); the number of injected failures is    *)
(* bounded by MaxFaults.                                                   *)
(*                                                                         *)
(* Spec      scheduler processes racing on one store, with the intake      *)
(* SpecLife  one scheduler with mark_completed / mark_abandoned calls      *)
(* SpecSolo  one scheduler alone: the effect of single poll cycles         *)
(* SpecXfer  transfer requests (api/routes/calls.py, transfer_handler.py)  *)
(*           on open sessions; SpecXferFair adds the event loop's fairness *)
(* SpecSession  the writers of one call_sessions row                       *)
(*           (customer_service.py, transfer_handler.log_transfer)          *)
(* SpecLoop  the poll loop of one scheduler and its cancellation;          *)
(*           SpecLoopFair adds the fairness of the loop's steps            *)
(* SpecJob   the jobs of one agent worker process                          *)
(*           (agents/openai_agent.py: entrypoint on agent_instance)        *)
(* SpecFeed  one scheduler dispatching to the worker whose jobs open calls *)
(* SpecPos   get_queue_position against entries of overlapping inserts     *)
(***************************************************************************)
EXTENDS Integers, Sequences, FiniteSets, TLC

\* ---------------------------------------------------------------- bounds
NumSchedulers == 2   \* scheduler processes polling the same store
ConcEntries == 2     \* queue entries inserted in Spec and SpecLife
MaxEntries == 3      \* queue entries inserted in SpecSolo
NumAgents == 2
MaxCalls == 2        \* largest max_concurrent_calls of an agent
MaxPriority == 2     \* priorities 0 (low) .. 2 (high)
MaxTime == 2         \* clock values 1..MaxTime
MaxFaults == 1       \* store / gateway failures injected in one behaviour
NumSessions == 1     \* call sessions opened in SpecXfer
NumRequests == 2     \* transfer requests served in SpecXfer
MaxTransfers == 2    \* largest transfer_count written in SpecSession
NumJobs == 2         \* agent jobs run through the one agent_instance in SpecJob

\* ------------------------------------------------------------- constants
WAITING == "waiting"
ASSIGNED == "assigned"
COMPLETED == "completed"
ABANDONED == "abandoned"
ABSENT == "absent"
ONLINE == "online"
OFFLINE == "offline"
NULL == 0
LOW == 0
NORMAL == 1
HIGH == 2
AI == "ai"
HUMAN == "human"
COLD == "cold"
WARM == "warm"

Procs == 1..NumSchedulers
QueueIds == 1..(IF MaxEntries > ConcEntries THEN MaxEntries ELSE ConcEntries)
AgentIds == 1..NumAgents
Priorities == 0..MaxPriority
SessionIds == 1..(IF NumJobs > NumSessions THEN NumJobs ELSE NumSessions)
JobIds == 1..NumJobs
Reqs == 1..NumRequests

VARIABLES
    call_queue,   \* table call_queue: queue_id -> row
    agents,       \* table agents: agent_id -> row
    now,          \* the clock read by datetime.now() and by the store
    sched,        \* per scheduler process: position in process_queue and its locals
    dispatches,   \* gateway: number of agent dispatches created per room (= queue_id)
    wins,         \* history: per entry, how many Waiting->Assigned attempts returned True
    incs,         \* history: per entry, how many agent increments were committed for it
    faults,       \* number of failures injected so far
    call_sessions, \* table call_sessions: session_id -> row
    rooms,        \* gateway: per call room, its participants and the SIP transfers made
    xfer,         \* per transfer request: position in transfer_call and its locals
    written,      \* history: per session, what the committed session updates wrote
    agent_instance, \* the module-level OpenAICustomerServiceAgent: its call state
    jobs,         \* per agent job: position in entrypoint and the job's context
    customers,    \* table customers: phone_number -> customer_id
    columns,      \* customer_id, phone_number, room_name of the queue and session rows
    position      \* per entry: what the last get_queue_position call for it returned

vars == <<call_queue, agents, now, sched, dispatches, wins, incs, faults,
          call_sessions, rooms, xfer, written,
          agent_instance, jobs, customers, columns, position>>

queueVars == <<call_queue, agents, now, sched, dispatches, wins, incs, position>>
transferVars == <<call_sessions, rooms, xfer, written>>
jobVars == <<agent_instance, jobs, customers, columns>>

AbsentRow ==
    [status |-> ABSENT, priority |-> 0, join_time |-> NULL,
     assigned_agent_id |-> NULL, assigned_at |-> NULL,
     completed_at |-> NULL, abandoned_at |-> NULL]

IdleProc ==
    [pc |-> "idle", calls |-> <<>>, idx |-> 0, agent_id |-> NULL, log |-> <<>>]

\* ------------------------------------------------------- add_to_queue
NewRow(priority, t) ==
    [status |-> WAITING, priority |-> priority, join_time |-> t,
     assigned_agent_id |-> NULL, assigned_at |-> NULL,
     completed_at |-> NULL, abandoned_at |-> NULL]

\* queue_id is a serial column: the next unused id, while fewer than n entries exist
NextQueueId(n) ==
    IF \E q \in 1..n : call_queue[q].status = ABSENT
    THEN CHOOSE q \in 1..n :
            /\ call_queue[q].status = ABSENT
            /\ \A r \in 1..n : call_queue[r].status = ABSENT => q <= r
    ELSE NULL

\* INSERT INTO call_queue ... RETURNING queue_id, with a priority among prios;
\* join_time is the store's clock at the insert
AddToQueue(n, prios) ==
    /\ NextQueueId(n) # NULL
    /\ \E priority \in prios :
          call_queue' = [call_queue EXCEPT ![NextQueueId(n)] = NewRow(priority, now)]
    /\ UNCHANGED <<agents, now, sched, dispatches, wins, incs, faults>>

\* ------------------------------------------------------------ the clock
Tick ==
    /\ now < MaxTime
    /\ now' = now + 1
    /\ UNCHANGED <<call_queue, agents, sched, dispatches, wins, incs, faults>>

\* --------------------------------------------------- get_waiting_calls
\* ORDER BY join_time ASC alone: the priority is ignored
MayPrecedeFifo(a, b) ==
    a.join_time <= b.join_time

\* ORDER BY priority DESC, join_time ASC: row a may precede row b
MayPrecede(a, b) ==
    \/ a.priority > b.priority
    \/ a.priority = b.priority /\ a.join_time <= b.join_time

WaitingIds == {q \in QueueIds : call_queue[q].status = WAITING}

CallDict(q) ==
    [queue_id |-> q, priority |-> call_queue[q].priority,
     join_time |-> call_queue[q].join_time]

\* every result the SELECT may return: the waiting rows, each once, in an
\* order compatible with the ORDER BY (rows with equal keys in any order)
WaitingCalls ==
    {s \in [1..Cardinality(WaitingIds) -> {CallDict(q) : q \in WaitingIds}] :
        /\ \A i, j \in DOMAIN s : i # j => s[i].queue_id # s[j].queue_id
        /\ \A i, j \in DOMAIN s : i < j => MayPrecede(s[i], s[j])}

\* a process_queue that leaves its loop at the first call that was not assigned
NextCallStopsOnFailure(sp, outcome) ==
    LET l == Append(sp.log, outcome) IN
    IF sp.idx < Len(sp.calls) /\ outcome \in {"human", "ai"}
    THEN [sp EXCEPT !.pc = "pick", !.idx = sp.idx + 1, !.agent_id = NULL, !.log = l]
    ELSE [sp EXCEPT !.pc = "idle", !.agent_id = NULL, !.log = l]

\* the loop of process_queue moves to the next call, or the cycle ends
NextCall(sp, outcome) ==
    LET l == Append(sp.log, outcome) IN
    IF sp.idx < Len(sp.calls)
    THEN [sp EXCEPT !.pc = "pick", !.idx = sp.idx + 1, !.agent_id = NULL, !.log = l]
    ELSE [sp EXCEPT !.pc = "idle", !.agent_id = NULL, !.log = l]

\* a process_queue without its except branch: the exception leaves
\* start_queue_processor and the loop is over
AbortCyclePropagates(sp) ==
    [sp EXCEPT !.pc = "crashed", !.agent_id = NULL, !.log = Append(sp.log, "aborted")]

\* an exception reaches the except branch of process_queue: the cycle ends,
\* the calls not yet processed are left for the next cycle
AbortCycle(sp) ==
    [sp EXCEPT !.pc = "idle", !.agent_id = NULL, !.log = Append(sp.log, "aborted")]

\* a process_queue that, when the read fails, goes through the calls of the last cycle again
GetWaitingCallsKeepsList(p) ==
    /\ sched[p].pc = "idle"
    /\ \/ /\ WaitingIds # {}
          /\ \E s \in WaitingCalls :
                sched' = [sched EXCEPT ![p] =
                    [pc |-> "pick", calls |-> s, idx |-> 1, agent_id |-> NULL, log |-> <<>>]]
          /\ UNCHANGED faults
       \/ /\ WaitingIds = {}
          /\ sched[p] # IdleProc
          /\ sched' = [sched EXCEPT ![p] = IdleProc]
          /\ UNCHANGED faults
       \/ /\ faults < MaxFaults
          /\ faults' = faults + 1
          /\ sched' = [sched EXCEPT ![p] =
                IF Len(sched[p].calls) > 0
                THEN [sched[p] EXCEPT !.pc = "pick", !.idx = 1, !.log = <<>>]
                ELSE IdleProc]
    /\ UNCHANGED <<call_queue, agents, now, dispatches, wins, incs>>

\* process_queue: waiting_calls = await self.get_waiting_calls()
GetWaitingCalls(p) ==
    /\ sched[p].pc = "idle"
    /\ \/ /\ WaitingIds # {}
          /\ \E s \in WaitingCalls :
                sched' = [sched EXCEPT ![p] =
                    [pc |-> "pick", calls |-> s, idx |-> 1, agent_id |-> NULL, log |-> <<>>]]
          /\ UNCHANGED faults
       \/ \* no row is waiting: "No calls waiting in queue", return
          /\ WaitingIds = {}
          /\ sched[p] # IdleProc
          /\ sched' = [sched EXCEPT ![p] = IdleProc]
          /\ UNCHANGED faults
       \/ \* the SELECT raises (get_waiting_calls logs and returns []) or the pool
          \* acquire raises (caught by process_queue): the cycle ends
          /\ faults < MaxFaults
          /\ faults' = faults + 1
          /\ sched' = [sched EXCEPT ![p] = IdleProc]
    /\ UNCHANGED <<call_queue, agents, now, dispatches, wins, incs>>

\* --------------------------------------------------- get_queue_position
\* None: no position was returned
NoPosition == -1

\* SELECT COUNT(*) FROM call_queue WHERE status = 'waiting' AND
\*   (priority > (SELECT priority ... WHERE queue_id = $2)
\*    OR (priority = (SELECT priority ... WHERE queue_id = $2) AND queue_id <= $2))
QueuePosition(queue_id) ==
    Cardinality({q \in QueueIds :
        /\ call_queue[q].status = WAITING
        /\ call_queue[queue_id].status # ABSENT
        /\ \/ call_queue[q].priority > call_queue[queue_id].priority
           \/ /\ call_queue[q].priority = call_queue[queue_id].priority
              /\ q <= queue_id})

GetQueuePosition(queue_id) ==
    /\ \/ /\ position' = [position EXCEPT ![queue_id] = QueuePosition(queue_id)]
          /\ UNCHANGED faults
       \/ \* the SELECT raises: logged, None is returned
          /\ faults < MaxFaults
          /\ faults' = faults + 1
          /\ position' = [position EXCEPT ![queue_id] = NoPosition]
    /\ position' # position
    /\ UNCHANGED <<call_queue, agents, now, sched, dispatches, wins, incs>>

\* add_to_queue by callers whose INSERTs overlap: the INSERT names no
\* join_time, so the row gets the column's default, a timestamp taken when
\* the caller's statement started, while queue_id is drawn from the sequence
\* when the row is written; a caller that started earlier may draw the later id
AddToQueueConcurrently(n, prios) ==
    /\ NextQueueId(n) # NULL
    /\ \E priority \in prios, t \in 1..now :
          call_queue' = [call_queue EXCEPT ![NextQueueId(n)] = NewRow(priority, t)]
    /\ UNCHANGED <<agents, now, sched, dispatches, wins, incs, faults>>

\* ------------------------------------------------ start_queue_processor
\* the task running the loop is cancelled: CancelledError is raised at the
\* await where the task is suspended (a store or gateway call of the cycle,
\* or the sleep between two cycles); it is not an Exception, so no except
\* branch of the cycle catches it, and start_queue_processor returns
Cancel(p) ==
    /\ sched[p].pc \in {"idle", "pick", "assign", "dispatch", "mark"}
    /\ sched' = [sched EXCEPT ![p].pc = "cancelled"]
    /\ UNCHANGED <<call_queue, agents, now, dispatches, wins, incs, faults>>

\* ------------------------------------------------- get_available_agent
Eligible(a) ==
    /\ agents[a].status = ONLINE
    /\ agents[a].current_call_count < agents[a].max_concurrent_calls

\* ORDER BY current_call_count ASC LIMIT 1: any eligible agent of least load
AvailableAgents ==
    {a \in AgentIds :
        /\ Eligible(a)
        /\ \A b \in AgentIds :
              Eligible(b) => agents[a].current_call_count <= agents[b].current_call_count}

CurrentCall(p) == sched[p].calls[sched[p].idx]

\* process_queue: agent_id = await self.get_available_agent(); if agent_id: ...
GetAvailableAgent(p) ==
    /\ sched[p].pc = "pick"
    /\ \/ /\ AvailableAgents # {}
          /\ \E a \in AvailableAgents :
                sched' = [sched EXCEPT ![p].pc = "assign", ![p].agent_id = a]
          /\ UNCHANGED faults
       \/ \* no row: return None, "No human agent -> dispatch to AI"
          /\ AvailableAgents = {}
          /\ sched' = [sched EXCEPT ![p].pc = "dispatch"]
          /\ UNCHANGED faults
       \/ \* the SELECT raises: get_available_agent logs and returns None
          /\ faults < MaxFaults
          /\ faults' = faults + 1
          /\ \/ sched' = [sched EXCEPT ![p].pc = "dispatch"]
             \/ \* the pool acquire raises, outside the try of get_available_agent
                sched' = [sched EXCEPT ![p] = AbortCycle(sched[p])]
    /\ UNCHANGED <<call_queue, agents, now, dispatches, wins, incs>>

\* ------------------------------------------------------ assign_to_agent
\* UPDATE call_queue SET status, assigned_agent_id, assigned_at WHERE queue_id = $4
AssignRow(row, agent_id, t) ==
    IF row.status = ABSENT THEN row
    ELSE [row EXCEPT !.status = ASSIGNED, !.assigned_agent_id = agent_id, !.assigned_at = t]

\* UPDATE agents SET current_call_count = current_call_count + 1 WHERE agent_id = $1
IncrementRow(row) ==
    [row EXCEPT !.current_call_count = row.current_call_count + 1]

\* assign_to_agent without the transaction: a failure of the second UPDATE
\* leaves the first one applied
AssignTxnNoRollback(queue_id, agent_id, t, outcome) ==
    IF outcome = "commit"
    THEN [q |-> [call_queue EXCEPT ![queue_id] = AssignRow(call_queue[queue_id], agent_id, t)],
          a |-> [agents EXCEPT ![agent_id] = IncrementRow(agents[agent_id])],
          ok |-> TRUE]
    ELSE IF outcome = "fail2"
    THEN [q |-> [call_queue EXCEPT ![queue_id] = AssignRow(call_queue[queue_id], agent_id, t)],
          a |-> agents, ok |-> FALSE]
    ELSE [q |-> call_queue, a |-> agents, ok |-> FALSE]

\* The two UPDATEs inside "async with conn.transaction()".  outcome is
\* "commit", "fail1" (the first UPDATE raises) or "fail2" (the second UPDATE
\* raises); leaving the block by an exception rolls both back.
AssignTxn(queue_id, agent_id, t, outcome) ==
    IF outcome = "commit"
    THEN [q |-> [call_queue EXCEPT ![queue_id] = AssignRow(call_queue[queue_id], agent_id, t)],
          a |-> [agents EXCEPT ![agent_id] = IncrementRow(agents[agent_id])],
          ok |-> TRUE]
    ELSE [q |-> call_queue, a |-> agents, ok |-> FALSE]

\* process_queue after assign_to_agent returned: "continue" in both cases
AfterAssign(sp, success) ==
    NextCall(sp, IF success THEN "human" ELSE "assign_failed")

AssignToAgent(p) ==
    /\ sched[p].pc = "assign"
    /\ \E outcome \in {"commit", "fail1", "fail2"} :
          LET r == AssignTxn(CurrentCall(p).queue_id, sched[p].agent_id, now, outcome) IN
          /\ outcome # "commit" => faults < MaxFaults
          /\ faults' = IF outcome = "commit" THEN faults ELSE faults + 1
          /\ call_queue' = r.q
          /\ agents' = r.a
          /\ wins' = IF r.ok THEN [wins EXCEPT ![CurrentCall(p).queue_id] = @ + 1] ELSE wins
          /\ incs' = [q \in QueueIds |->
                        IF q = CurrentCall(p).queue_id
                        THEN incs[q] + r.a[sched[p].agent_id].current_call_count
                                     - agents[sched[p].agent_id].current_call_count
                        ELSE incs[q]]
          /\ \/ sched' = [sched EXCEPT ![p] = AfterAssign(sched[p], r.ok)]
             \/ \* the pool acquire raises, outside the try of assign_to_agent
                /\ outcome = "fail1"
                /\ sched' = [sched EXCEPT ![p] = AbortCycle(sched[p])]
    /\ UNCHANGED <<now, dispatches>>

\* ------------------------------------------------------- dispatch_to_ai
\* a dispatch_to_ai whose except branch marks the entry abandoned
CreateDispatchAbandons(p) ==
    /\ sched[p].pc = "dispatch"
    /\ \/ /\ dispatches' = [dispatches EXCEPT ![CurrentCall(p).queue_id] = @ + 1]
          /\ sched' = [sched EXCEPT ![p].pc = "mark"]
          /\ UNCHANGED <<faults, call_queue>>
       \/ /\ faults < MaxFaults
          /\ faults' = faults + 1
          /\ sched' = [sched EXCEPT ![p] = NextCall(sched[p], "gateway_failed")]
          /\ call_queue' = [call_queue EXCEPT ![CurrentCall(p).queue_id] =
                                [@ EXCEPT !.status = ABANDONED, !.abandoned_at = now]]
          /\ UNCHANGED dispatches
    /\ UNCHANGED <<agents, now, wins, incs>>

\* lkapi.agent_dispatch.create_dispatch(...): the gateway call
CreateDispatch(p) ==
    /\ sched[p].pc = "dispatch"
    /\ \/ /\ dispatches' = [dispatches EXCEPT ![CurrentCall(p).queue_id] = @ + 1]
          /\ sched' = [sched EXCEPT ![p].pc = "mark"]
          /\ UNCHANGED faults
       \/ \* LiveKitAPI() or create_dispatch raises: except -> return False
          /\ faults < MaxFaults
          /\ faults' = faults + 1
          /\ sched' = [sched EXCEPT ![p] = NextCall(sched[p], "gateway_failed")]
          /\ UNCHANGED dispatches
    /\ UNCHANGED <<call_queue, agents, now, wins, incs>>

\* UPDATE call_queue SET status = 'assigned', assigned_at = now WHERE queue_id = $3
MarkAiRow(row, t) ==
    IF row.status = ABSENT THEN row
    ELSE [row EXCEPT !.status = ASSIGNED, !.assigned_at = t]

\* dispatch_to_ai after the dispatch was created: mark the entry, return True
MarkAssignedAi(p) ==
    /\ sched[p].pc = "mark"
    /\ \/ /\ call_queue' = [call_queue EXCEPT ![CurrentCall(p).queue_id] =
                                MarkAiRow(call_queue[CurrentCall(p).queue_id], now)]
          /\ wins' = [wins EXCEPT ![CurrentCall(p).queue_id] = @ + 1]
          /\ sched' = [sched EXCEPT ![p] = NextCall(sched[p], "ai")]
          /\ UNCHANGED faults
       \/ \* acquire / UPDATE raises: except -> return False
          /\ faults < MaxFaults
          /\ faults' = faults + 1
          /\ sched' = [sched EXCEPT ![p] = NextCall(sched[p], "mark_failed")]
          /\ UNCHANGED <<call_queue, wins>>
       \/ \* the UPDATE is done and lkapi.aclose() raises: except -> return False
          /\ faults < MaxFaults
          /\ faults' = faults + 1
          /\ call_queue' = [call_queue EXCEPT ![CurrentCall(p).queue_id] =
                                MarkAiRow(call_queue[CurrentCall(p).queue_id], now)]
          /\ sched' = [sched EXCEPT ![p] = NextCall(sched[p], "close_failed")]
          /\ UNCHANGED wins
    /\ UNCHANGED <<agents, now, dispatches, incs>>

\* -------------------------------------- mark_completed / mark_abandoned
\* a mark_completed that also clears the agent reference of the entry
CompleteRowClearsAgent(row, t) ==
    IF row.status = ABSENT THEN row
    ELSE [row EXCEPT !.status = COMPLETED, !.completed_at = t,
                     !.assigned_agent_id = NULL]

\* UPDATE call_queue SET status = 'completed', completed_at = now WHERE queue_id = $3
CompleteRow(row, t) ==
    IF row.status = ABSENT THEN row
    ELSE [row EXCEPT !.status = COMPLETED, !.completed_at = t]

\* UPDATE call_queue SET status = 'abandoned', abandoned_at = now WHERE queue_id = $3
AbandonRow(row, t) ==
    IF row.status = ABSENT THEN row
    ELSE [row EXCEPT !.status = ABANDONED, !.abandoned_at = t]

MarkCompleted(q) ==
    /\ call_queue[q].status # ABSENT
    /\ call_queue' = [call_queue EXCEPT ![q] = CompleteRow(call_queue[q], now)]
    /\ call_queue' # call_queue
    /\ UNCHANGED <<agents, now, sched, dispatches, wins, incs, faults>>

MarkAbandoned(q) ==
    /\ call_queue[q].status # ABSENT
    /\ call_queue' = [call_queue EXCEPT ![q] = AbandonRow(call_queue[q], now)]
    /\ call_queue' # call_queue
    /\ UNCHANGED <<agents, now, sched, dispatches, wins, incs, faults>>

\* ------------------------------------------------------ call sessions
\* '{}'::jsonb: the object without keys
EmptyMetadata == [k \in {} |-> NULL]

AbsentSession ==
    [handled_by |-> ABSENT, agent_id |-> NULL, transfer_count |-> 0,
     call_metadata |-> EmptyMetadata,
     start_time |-> NULL, end_time |-> NULL, duration_seconds |-> NULL]

\* INSERT INTO call_sessions (..., handled_by, call_metadata, start_time)
\* VALUES (..., 'ai', '{}'::jsonb, CURRENT_TIMESTAMP)
NewSession(t) ==
    [handled_by |-> AI, agent_id |-> NULL, transfer_count |-> 0,
     call_metadata |-> EmptyMetadata,
     start_time |-> t, end_time |-> NULL, duration_seconds |-> NULL]

\* participant identities of a call room: the caller's SIP leg and the agent job
Identities == {"sip_caller", "agent_ai"}

\* "sip" in p.identity.lower()
SipIdentities == {"sip_caller"}

EmptyRoom == [participants |-> {}, refers |-> 0]

\* session_id is a serial column: the next unused id, while fewer than n sessions exist
NextSessionId(n) ==
    IF \E s \in 1..n : call_sessions[s].handled_by = ABSENT
    THEN CHOOSE s \in 1..n :
            /\ call_sessions[s].handled_by = ABSENT
            /\ \A t \in 1..n : call_sessions[t].handled_by = ABSENT => s <= t
    ELSE NULL

\* the agent job of an inbound call opens the session of the call's room
CreateSession ==
    /\ NextSessionId(NumSessions) # NULL
    /\ call_sessions' = [call_sessions EXCEPT ![NextSessionId(NumSessions)] = NewSession(now)]
    /\ rooms' = [rooms EXCEPT ![NextSessionId(NumSessions)].participants = Identities]
    /\ UNCHANGED <<queueVars, faults, xfer>>

\* the caller hangs up: the SIP participant leaves the room
CustomerHangsUp(s) ==
    /\ rooms[s].participants \cap SipIdentities # {}
    /\ rooms' = [rooms EXCEPT ![s].participants = @ \ SipIdentities]
    /\ UNCHANGED <<queueVars, faults, call_sessions, xfer>>

\* ------------------------------------- session updates (customer_service.py)
\* a merge that stores the new object in place of the old one
MergeMetadataReplaces(a, b) ==
    b

\* call_metadata || $1::jsonb: the keys of both, the right operand's value
\* where both have the key
MergeMetadata(a, b) ==
    [k \in (DOMAIN a) \cup (DOMAIN b) |-> IF k \in DOMAIN b THEN b[k] ELSE a[k]]

\* history: the last value written for each key
LastWrites(old, md) ==
    [k \in (DOMAIN old) \cup (DOMAIN md) |-> IF k \in DOMAIN md THEN md[k] ELSE old[k]]

NothingWritten ==
    [transfers |-> 0, handled_by |-> AI, agent_id |-> NULL, end_time |-> NULL,
     call_metadata |-> EmptyMetadata]

\* the metadata the agent job passes when the call ends, normally or by an error
EndMetadatas(t) ==
    {[completed_at |-> t], [completed_at |-> t, error |-> TRUE]}

\* an update_session_end that stores the session as the job opened it, ended
UpdateSessionEndRowClobbers(row, t, md) ==
    IF row.handled_by = ABSENT THEN row
    ELSE [row EXCEPT !.end_time = t,
                     !.duration_seconds = t - row.start_time,
                     !.call_metadata = md,
                     !.handled_by = AI, !.agent_id = NULL, !.transfer_count = 0]

\* UPDATE call_sessions SET end_time = CURRENT_TIMESTAMP,
\*   duration_seconds = CURRENT_TIMESTAMP - start_time,
\*   call_metadata = call_metadata || $1 WHERE session_id = $2
UpdateSessionEndRow(row, t, md) ==
    IF row.handled_by = ABSENT THEN row
    ELSE [row EXCEPT !.end_time = t,
                     !.duration_seconds = t - row.start_time,
                     !.call_metadata = MergeMetadata(@, md)]

UpdateSessionEnd(s) ==
    /\ call_sessions[s].handled_by # ABSENT
    /\ \/ /\ \E md \in EndMetadatas(now) :
                /\ call_sessions' = [call_sessions EXCEPT ![s] =
                                        UpdateSessionEndRow(call_sessions[s], now, md)]
                /\ written' = [written EXCEPT ![s].end_time = now,
                                  ![s].call_metadata = LastWrites(@, md)]
          /\ UNCHANGED faults
       \/ \* the UPDATE raises: logged, nothing written
          /\ faults < MaxFaults
          /\ faults' = faults + 1
          /\ UNCHANGED <<call_sessions, written>>
    /\ UNCHANGED <<queueVars, rooms, xfer>>

\* objects a caller merges while the call goes on
SessionMetadatas ==
    {[sentiment |-> v] : v \in {"positive", "negative"}} \cup {[completed_at |-> NULL]}

\* UPDATE call_sessions SET call_metadata = call_metadata || $1 WHERE session_id = $2
UpdateSessionMetadataRow(row, md) ==
    IF row.handled_by = ABSENT THEN row
    ELSE [row EXCEPT !.call_metadata = MergeMetadata(@, md)]

UpdateSessionMetadata(s) ==
    /\ call_sessions[s].handled_by # ABSENT
    /\ \/ /\ \E md \in SessionMetadatas :
                /\ call_sessions' = [call_sessions EXCEPT ![s] =
                                        UpdateSessionMetadataRow(call_sessions[s], md)]
                /\ written' = [written EXCEPT ![s].call_metadata = LastWrites(@, md)]
          /\ UNCHANGED faults
       \/ \* the UPDATE raises: logged, nothing written
          /\ faults < MaxFaults
          /\ faults' = faults + 1
          /\ UNCHANGED <<call_sessions, written>>
    /\ UNCHANGED <<queueVars, rooms, xfer>>

\* UPDATE call_sessions SET handled_by = $1, agent_id = $2,
\*   transfer_count = CASE WHEN $1 = 'human' THEN transfer_count + 1
\*                         ELSE transfer_count END WHERE session_id = $3
UpdateSessionHandlerRow(row, handler_type, agent_id) ==
    IF row.handled_by = ABSENT THEN row
    ELSE [row EXCEPT !.handled_by = handler_type,
                     !.agent_id = agent_id,
                     !.transfer_count = IF handler_type = HUMAN THEN @ + 1 ELSE @]

UpdateSessionHandler(s) ==
    /\ call_sessions[s].handled_by # ABSENT
    /\ \/ /\ \E handler_type \in {AI, HUMAN}, agent_id \in AgentIds \cup {NULL} :
                /\ handler_type = HUMAN => call_sessions[s].transfer_count < MaxTransfers
                /\ call_sessions' = [call_sessions EXCEPT ![s] =
                        UpdateSessionHandlerRow(call_sessions[s], handler_type, agent_id)]
                /\ written' = [written EXCEPT
                        ![s].handled_by = handler_type,
                        ![s].agent_id = agent_id,
                        ![s].transfers = IF handler_type = HUMAN THEN @ + 1 ELSE @]
          /\ UNCHANGED faults
       \/ \* the UPDATE raises: logged, nothing written
          /\ faults < MaxFaults
          /\ faults' = faults + 1
          /\ UNCHANGED <<call_sessions, written>>
    /\ UNCHANGED <<queueVars, rooms, xfer>>

\* --------------------------------------- log_transfer (transfer_handler.py)
TransferMetadatas(t) ==
    {[transfer_type |-> tt, transfer_success |-> ok, transfer_time |-> t] :
        tt \in {COLD, WARM}, ok \in BOOLEAN}

\* UPDATE call_sessions SET agent_id = $1, handled_by = 'human',
\*   transfer_count = transfer_count + 1,
\*   call_metadata = call_metadata || $2 WHERE session_id = $3
LogTransferRow(row, agent_id, md) ==
    IF row.handled_by = ABSENT THEN row
    ELSE [row EXCEPT !.agent_id = agent_id,
                     !.handled_by = HUMAN,
                     !.transfer_count = @ + 1,
                     !.call_metadata = MergeMetadata(@, md)]

LogTransfer(s) ==
    /\ call_sessions[s].handled_by # ABSENT
    /\ \/ /\ call_sessions[s].transfer_count < MaxTransfers
          /\ \E agent_id \in AgentIds, md \in TransferMetadatas(now) :
                /\ call_sessions' = [call_sessions EXCEPT ![s] =
                                        LogTransferRow(call_sessions[s], agent_id, md)]
                /\ written' = [written EXCEPT
                        ![s].handled_by = HUMAN,
                        ![s].agent_id = agent_id,
                        ![s].transfers = @ + 1,
                        ![s].call_metadata = LastWrites(@, md)]
          /\ UNCHANGED faults
       \/ \* the UPDATE raises: logged, nothing written
          /\ faults < MaxFaults
          /\ faults' = faults + 1
          /\ UNCHANGED <<call_sessions, written>>
    /\ UNCHANGED <<queueVars, rooms, xfer>>

\* ------------------------------------------ transfer_call (routes/calls.py)
UnknownAgent == NumAgents + 1

IdleRequest ==
    [pc |-> "idle", session_id |-> NULL, agent_id |-> NULL, transfer_type |-> "none",
     result |-> "none", leg |-> "none", attempts |-> 0, before |-> AbsentSession]

\* the request leaves transfer_call with this result
Return(x, result) == [x EXCEPT !.pc = "done", !.result = result]

\* TransferResponse(success = result.get('success', False), ...)
Success(x) == x.pc = "done" /\ x.result = "ok"

\* POST /calls/{session_id}/transfer: SELECT room_name FROM call_sessions
TransferCall(r) ==
    /\ xfer[r].pc = "idle"
    /\ \E session_id \in SessionIds, agent_id \in AgentIds \cup {UnknownAgent},
          transfer_type \in {COLD, WARM} :
          LET x == [xfer[r] EXCEPT !.session_id = session_id, !.agent_id = agent_id,
                                   !.transfer_type = transfer_type,
                                   !.before = call_sessions[session_id]]
          IN  \/ /\ call_sessions[session_id].handled_by # ABSENT
                 /\ xfer' = [xfer EXCEPT ![r] = [x EXCEPT !.pc = "agent"]]
                 /\ UNCHANGED faults
              \/ \* no row: HTTP 404 "Call session not found"
                 /\ call_sessions[session_id].handled_by = ABSENT
                 /\ xfer' = [xfer EXCEPT ![r] = Return(x, "404")]
                 /\ UNCHANGED faults
              \/ \* the acquire or the SELECT raises: HTTP 500
                 /\ faults < MaxFaults
                 /\ faults' = faults + 1
                 /\ xfer' = [xfer EXCEPT ![r] = Return(x, "500")]
    /\ UNCHANGED <<queueVars, call_sessions, rooms>>

\* SELECT phone_number FROM agents WHERE agent_id = $1, then the branch on transfer_type
SelectAgent(r) ==
    /\ xfer[r].pc = "agent"
    /\ \/ /\ xfer[r].agent_id \in AgentIds
          /\ xfer' = [xfer EXCEPT ![r].pc =
                        IF xfer[r].transfer_type = COLD THEN "list" ELSE "dial"]
          /\ UNCHANGED faults
       \/ \* no row: HTTP 404 "Agent not found"
          /\ xfer[r].agent_id \notin AgentIds
          /\ xfer' = [xfer EXCEPT ![r] = Return(xfer[r], "404")]
          /\ UNCHANGED faults
       \/ \* the SELECT raises: HTTP 500
          /\ faults < MaxFaults
          /\ faults' = faults + 1
          /\ xfer' = [xfer EXCEPT ![r] = Return(xfer[r], "500")]
    /\ UNCHANGED <<queueVars, call_sessions, rooms>>

\* -------------------------------------------------------- cold_transfer
\* the participant cold_transfer picks from list_participants, if any
CustomerParticipant(s) == rooms[s].participants \cap SipIdentities

\* a cold_transfer that goes on to the SIP transfer without a customer
ListParticipantsUnchecked(r) ==
    /\ xfer[r].pc = "list"
    /\ \/ /\ xfer' = [xfer EXCEPT ![r].pc = "refer"]
          /\ UNCHANGED faults
       \/ /\ faults < MaxFaults
          /\ faults' = faults + 1
          /\ xfer' = [xfer EXCEPT ![r] = Return(xfer[r], "gateway_error")]
    /\ UNCHANGED <<queueVars, call_sessions, rooms>>

\* api.room.list_participants(room) and the search for the customer
ListParticipants(r) ==
    /\ xfer[r].pc = "list"
    /\ \/ /\ CustomerParticipant(xfer[r].session_id) # {}
          /\ xfer' = [xfer EXCEPT ![r].pc = "refer"]
          /\ UNCHANGED faults
       \/ \* "No customer participant found": return success False
          /\ CustomerParticipant(xfer[r].session_id) = {}
          /\ xfer' = [xfer EXCEPT ![r] = Return(xfer[r], "no_customer")]
          /\ UNCHANGED faults
       \/ \* list_participants raises: except -> success False
          /\ faults < MaxFaults
          /\ faults' = faults + 1
          /\ xfer' = [xfer EXCEPT ![r] = Return(xfer[r], "gateway_error")]
    /\ UNCHANGED <<queueVars, call_sessions, rooms>>

\* a cold_transfer that tries the SIP transfer again when the gateway call raised
TransferSipParticipantRetries(r) ==
    /\ xfer[r].pc = "refer"
    /\ LET s == xfer[r].session_id
           x == [xfer[r] EXCEPT !.attempts = @ + 1]
       IN  \/ /\ CustomerParticipant(s) # {}
              /\ rooms' = [rooms EXCEPT ![s].participants = @ \ SipIdentities,
                                        ![s].refers = @ + 1]
              /\ xfer' = [xfer EXCEPT ![r] = Return(x, "ok")]
              /\ UNCHANGED faults
           \/ /\ CustomerParticipant(s) = {}
              /\ xfer' = [xfer EXCEPT ![r] = Return(x, "gateway_error")]
              /\ UNCHANGED <<rooms, faults>>
           \/ /\ faults < MaxFaults
              /\ faults' = faults + 1
              /\ xfer' = [xfer EXCEPT ![r] = x]
              /\ UNCHANGED rooms
    /\ UNCHANGED <<queueVars, call_sessions>>

\* api.sip.transfer_sip_participant(...): SIP REFER of the customer to the agent
TransferSipParticipant(r) ==
    /\ xfer[r].pc = "refer"
    /\ LET s == xfer[r].session_id
           x == [xfer[r] EXCEPT !.attempts = @ + 1]
       IN  \/ /\ CustomerParticipant(s) # {}
              /\ rooms' = [rooms EXCEPT ![s].participants = @ \ SipIdentities,
                                        ![s].refers = @ + 1]
              /\ xfer' = [xfer EXCEPT ![r] = Return(x, "ok")]
              /\ UNCHANGED faults
           \/ \* the participant left meanwhile: the gateway rejects the transfer
              /\ CustomerParticipant(s) = {}
              /\ xfer' = [xfer EXCEPT ![r] = Return(x, "gateway_error")]
              /\ UNCHANGED <<rooms, faults>>
           \/ \* the gateway call raises: except -> success False
              /\ faults < MaxFaults
              /\ faults' = faults + 1
              /\ xfer' = [xfer EXCEPT ![r] = Return(x, "gateway_error")]
              /\ UNCHANGED rooms
    /\ UNCHANGED <<queueVars, call_sessions>>

\* -------------------------------------------------------- warm_transfer
\* a warm_transfer whose except branch logs the failed transfer on the session
CreateSipParticipantLogsFailure(r) ==
    /\ xfer[r].pc = "dial"
    /\ LET x == [xfer[r] EXCEPT !.attempts = @ + 1] IN
       \/ /\ xfer' = [xfer EXCEPT ![r] = [x EXCEPT !.pc = "wait", !.leg = "ringing"]]
          /\ UNCHANGED <<faults, call_sessions>>
       \/ /\ faults < MaxFaults
          /\ faults' = faults + 1
          /\ xfer' = [xfer EXCEPT ![r] = Return(x, "gateway_error")]
          /\ call_sessions' = [call_sessions EXCEPT ![xfer[r].session_id] =
                [@ EXCEPT !.agent_id = xfer[r].agent_id, !.handled_by = HUMAN,
                          !.transfer_count = @ + 1,
                          !.call_metadata = MergeMetadata(@, [transfer_success |-> FALSE])]]
    /\ UNCHANGED <<queueVars, rooms>>

\* api.sip.create_sip_participant(...): dial the agent into the consultation room
CreateSipParticipant(r) ==
    /\ xfer[r].pc = "dial"
    /\ LET x == [xfer[r] EXCEPT !.attempts = @ + 1] IN
       \/ /\ xfer' = [xfer EXCEPT ![r] = [x EXCEPT !.pc = "wait", !.leg = "ringing"]]
          /\ UNCHANGED faults
       \/ \* the gateway call raises: except -> success False
          /\ faults < MaxFaults
          /\ faults' = faults + 1
          /\ xfer' = [xfer EXCEPT ![r] = Return(x, "gateway_error")]
    /\ UNCHANGED <<queueVars, call_sessions, rooms>>

\* a warm_transfer that stays in its wait until the agent has picked up
WaitForAnswerUntilPickup(r) ==
    /\ xfer[r].pc = "wait"
    /\ xfer[r].leg = "answered"
    /\ xfer' = [xfer EXCEPT ![r] = Return(xfer[r], "ok")]
    /\ UNCHANGED <<queueVars, faults, call_sessions, rooms>>

\* await asyncio.sleep(3), then return success True
WaitForAnswer(r) ==
    /\ xfer[r].pc = "wait"
    /\ xfer' = [xfer EXCEPT ![r] = Return(xfer[r], "ok")]
    /\ UNCHANGED <<queueVars, faults, call_sessions, rooms>>

\* the dialled agent picks up the consultation leg
AgentAnswers(r) ==
    /\ xfer[r].leg = "ringing"
    /\ xfer' = [xfer EXCEPT ![r].leg = "answered"]
    /\ UNCHANGED <<queueVars, faults, call_sessions, rooms>>

\* ------------------------------------ agent job (agents/openai_agent.py)
\* Each awaited call of entrypoint is one step: its arguments are read from
\* the agent instance, the statement runs, and its result is stored.
Phones == {"returning", "first_time"}
NoPhone == "none"
RoomNames == 1..NumJobs

\* __init__: the call state of the agent instance
NewInstance ==
    [session_id |-> NULL, customer_id |-> NULL, queue_id |-> NULL,
     phone_number |-> NoPhone, is_first_time_customer |-> FALSE]

\* a job not yet started; session_id and queue_id record the rows the job created
NewJob ==
    [pc |-> "new", phone_number |-> NoPhone, room_name |-> NULL, dispatch_of |-> NULL,
     session_id |-> NULL, queue_id |-> NULL, failed |-> FALSE]

NoQueueColumns == [customer_id |-> NULL, phone_number |-> NoPhone, room_name |-> NULL]
NoSessionColumns == [customer_id |-> NULL, room_name |-> NULL]

\* the customers table at the start: one customer on file
KnownCustomers == [ph \in Phones |-> IF ph = "returning" THEN 1 ELSE NULL]

\* customer_id is a serial column
NextCustomerId == 1 + Cardinality({ph \in Phones : customers[ph] # NULL})

\* the room of a new inbound call: a room no job has been in
NextRoom ==
    IF \E r \in RoomNames : \A k \in JobIds : jobs[k].room_name # r
    THEN CHOOSE r \in RoomNames :
            /\ \A k \in JobIds : jobs[k].room_name # r
            /\ \A o \in RoomNames : (\A k \in JobIds : jobs[k].room_name # o) => r <= o
    ELSE NULL

\* a dispatch created by dispatch_to_ai for entry q that no job has taken yet
PendingDispatch(q) ==
    dispatches[q] > Cardinality({k \in JobIds : jobs[k].dispatch_of = q})

\* ctx of a job: started for a new inbound call, or by a dispatch of the
\* scheduler into the room of entry q with metadata_payload's phone_number
JobContexts ==
    {[phone_number |-> ph, room_name |-> NextRoom, dispatch_of |-> NULL] :
        ph \in {x \in Phones : NextRoom # NULL}}
    \cup
    {[phone_number |-> columns.call_queue[q].phone_number,
      room_name |-> columns.call_queue[q].room_name,
      dispatch_of |-> q] : q \in {x \in QueueIds : PendingDispatch(x)}}

\* an exception reaches "except Exception as e" of entrypoint
Fail(jr) ==
    [jr EXCEPT !.pc = "err_abandon", !.failed = TRUE]

\* initialize_database, ctx.connect, then self.phone_number = metadata.get(...)
StartJob(j) ==
    /\ jobs[j].pc = "new"
    /\ \E ctx \in JobContexts :
          LET jr == [jobs[j] EXCEPT !.phone_number = ctx.phone_number,
                                    !.room_name = ctx.room_name,
                                    !.dispatch_of = ctx.dispatch_of]
          IN  \/ /\ jobs' = [jobs EXCEPT ![j] = [jr EXCEPT !.pc = "context"]]
                 /\ agent_instance' = [agent_instance EXCEPT !.phone_number = ctx.phone_number]
                 /\ UNCHANGED faults
              \/ \* initialize_database or ctx.connect raises
                 /\ faults < MaxFaults
                 /\ faults' = faults + 1
                 /\ jobs' = [jobs EXCEPT ![j] = Fail(jr)]
                 /\ UNCHANGED agent_instance
    /\ UNCHANGED <<queueVars, transferVars, customers, columns>>

\* get_customer_context(phone_number), then "if not self.customer_id"
GetCustomerContext(j) ==
    /\ jobs[j].pc = "context"
    /\ \/ /\ agent_instance' =
                IF customers[jobs[j].phone_number] = NULL
                THEN [agent_instance EXCEPT !.is_first_time_customer = TRUE]
                ELSE [agent_instance EXCEPT !.customer_id = customers[jobs[j].phone_number],
                                            !.is_first_time_customer = FALSE]
          /\ UNCHANGED faults
       \/ \* get_customer_info raises: "context unavailable" is returned
          /\ faults < MaxFaults
          /\ faults' = faults + 1
          /\ UNCHANGED agent_instance
    /\ jobs' = [jobs EXCEPT ![j].pc =
                  IF agent_instance'.customer_id = NULL THEN "ensure" ELSE "session"]
    /\ UNCHANGED <<queueVars, transferVars, customers, columns>>

\* self.customer_id = get_or_create_customer(self.phone_number)["customer_id"]
GetOrCreateCustomer(j) ==
    /\ jobs[j].pc = "ensure"
    /\ \/ /\ customers' =
                IF customers[agent_instance.phone_number] = NULL
                THEN [customers EXCEPT ![agent_instance.phone_number] = NextCustomerId]
                ELSE customers
          /\ agent_instance' = [agent_instance EXCEPT
                                  !.customer_id = customers'[agent_instance.phone_number]]
          /\ jobs' = [jobs EXCEPT ![j].pc = "session"]
          /\ UNCHANGED faults
       \/ /\ faults < MaxFaults
          /\ faults' = faults + 1
          /\ jobs' = [jobs EXCEPT ![j] = Fail(jobs[j])]
          /\ UNCHANGED <<agent_instance, customers>>
    /\ UNCHANGED <<queueVars, transferVars, columns>>

\* self.session_id = create_session(self.customer_id, ctx.room.name)
CreateJobSession(j) ==
    /\ jobs[j].pc = "session"
    /\ NextSessionId(NumJobs) # NULL
    /\ \/ /\ call_sessions' = [call_sessions EXCEPT ![NextSessionId(NumJobs)] = NewSession(now)]
          /\ columns' = [columns EXCEPT !.call_sessions[NextSessionId(NumJobs)] =
                            [customer_id |-> agent_instance.customer_id,
                             room_name |-> jobs[j].room_name]]
          /\ agent_instance' = [agent_instance EXCEPT !.session_id = NextSessionId(NumJobs)]
          /\ jobs' = [jobs EXCEPT ![j].pc = "enqueue",
                                  ![j].session_id = NextSessionId(NumJobs)]
          /\ UNCHANGED faults
       \/ /\ faults < MaxFaults
          /\ faults' = faults + 1
          /\ jobs' = [jobs EXCEPT ![j] = Fail(jobs[j])]
          /\ UNCHANGED <<call_sessions, columns, agent_instance>>
    /\ UNCHANGED <<queueVars, rooms, xfer, written, customers>>

\* self.queue_id = add_to_queue(self.customer_id, self.phone_number,
\*     ctx.room.name, priority = 1 if self.is_first_time_customer else 2)
Enqueue(j) ==
    /\ jobs[j].pc = "enqueue"
    /\ NextQueueId(NumJobs) # NULL
    /\ \/ /\ call_queue' = [call_queue EXCEPT ![NextQueueId(NumJobs)] =
                NewRow(IF agent_instance.is_first_time_customer THEN NORMAL ELSE HIGH, now)]
          /\ columns' = [columns EXCEPT !.call_queue[NextQueueId(NumJobs)] =
                            [customer_id |-> agent_instance.customer_id,
                             phone_number |-> agent_instance.phone_number,
                             room_name |-> jobs[j].room_name]]
          /\ agent_instance' = [agent_instance EXCEPT !.queue_id = NextQueueId(NumJobs)]
          /\ jobs' = [jobs EXCEPT ![j].pc = "talk", ![j].queue_id = NextQueueId(NumJobs)]
          /\ UNCHANGED faults
       \/ /\ faults < MaxFaults
          /\ faults' = faults + 1
          /\ jobs' = [jobs EXCEPT ![j] = Fail(jobs[j])]
          /\ UNCHANGED <<call_queue, columns, agent_instance>>
    /\ UNCHANGED <<agents, now, sched, dispatches, wins, incs, position, transferVars, customers>>

\* await session.start(...): the conversation, which returns or raises
SessionStart(j) ==
    /\ jobs[j].pc = "talk"
    /\ \/ jobs' = [jobs EXCEPT ![j].pc = "end_session"]
       \/ jobs' = [jobs EXCEPT ![j] = Fail(jobs[j])]
    /\ UNCHANGED <<queueVars, faults, transferVars, agent_instance, customers, columns>>

\* "if self.session_id: await update_session_end(self.session_id, md)" of a
\* cleanup, which then goes on at next
EndJobSession(j, md, next) ==
    /\ \/ /\ agent_instance.session_id # NULL
          /\ call_sessions' = [call_sessions EXCEPT ![agent_instance.session_id] =
                                  UpdateSessionEndRow(@, now, md)]
          /\ written' = [written EXCEPT ![agent_instance.session_id].end_time = now,
                            ![agent_instance.session_id].call_metadata = LastWrites(@, md)]
          /\ jobs' = [jobs EXCEPT ![j].pc = next]
          /\ UNCHANGED faults
       \/ /\ agent_instance.session_id = NULL
          /\ jobs' = [jobs EXCEPT ![j].pc = next]
          /\ UNCHANGED <<call_sessions, written, faults>>
       \/ \* the UPDATE raises (update_session_end logs it), or the pool
          \* acquire raises (the except of the cleanup logs it: the cleanup is over)
          /\ agent_instance.session_id # NULL
          /\ faults < MaxFaults
          /\ faults' = faults + 1
          /\ \E after \in {next, "done"} : jobs' = [jobs EXCEPT ![j].pc = after]
          /\ UNCHANGED <<call_sessions, written>>
    /\ UNCHANGED <<queueVars, rooms, xfer, agent_instance, customers, columns>>

\* "if self.queue_id: await mark_completed / mark_abandoned (self.queue_id)"
\* of a cleanup, which then goes on at next
MarkJobEntry(j, status, next) ==
    /\ \/ /\ agent_instance.queue_id # NULL
          /\ call_queue' = [call_queue EXCEPT ![agent_instance.queue_id] =
                                IF status = COMPLETED THEN CompleteRow(@, now)
                                ELSE AbandonRow(@, now)]
          /\ jobs' = [jobs EXCEPT ![j].pc = next]
          /\ UNCHANGED faults
       \/ /\ agent_instance.queue_id = NULL
          /\ jobs' = [jobs EXCEPT ![j].pc = next]
          /\ UNCHANGED <<call_queue, faults>>
       \/ \* the UPDATE raises (logged, False is returned), or the pool acquire
          \* raises (the except of the cleanup logs it: the cleanup is over)
          /\ agent_instance.queue_id # NULL
          /\ faults < MaxFaults
          /\ faults' = faults + 1
          /\ \E after \in {next, "done"} : jobs' = [jobs EXCEPT ![j].pc = after]
          /\ UNCHANGED call_queue
    /\ UNCHANGED <<agents, now, sched, dispatches, wins, incs, position, transferVars,
                   agent_instance, customers, columns>>

\* cleanup after the conversation: update_session_end, then mark_completed
CleanupSession(j) ==
    /\ jobs[j].pc = "end_session"
    /\ EndJobSession(j, [completed_at |-> now], "complete")

CleanupQueue(j) ==
    /\ jobs[j].pc = "complete"
    /\ MarkJobEntry(j, COMPLETED, "done")

\* cleanup on error: mark_abandoned, then update_session_end with "error"
ErrorCleanupQueue(j) ==
    /\ jobs[j].pc = "err_abandon"
    /\ MarkJobEntry(j, ABANDONED, "err_end")

ErrorCleanupSession(j) ==
    /\ jobs[j].pc = "err_end"
    /\ EndJobSession(j, [completed_at |-> now, error |-> TRUE], "done")

\* the job's task is cancelled at the await where it is suspended:
\* CancelledError passes "except Exception", no cleanup runs
CancelJob(j) ==
    /\ jobs[j].pc \in {"context", "ensure", "session", "enqueue", "talk",
                       "end_session", "complete", "err_abandon", "err_end"}
    /\ jobs' = [jobs EXCEPT ![j].pc = "cancelled"]
    /\ UNCHANGED <<queueVars, faults, transferVars, agent_instance, customers, columns>>

\* ------------------------------------------------------- specifications
AgentRows ==
    [status : {ONLINE, OFFLINE}, current_call_count : {0},
     max_concurrent_calls : 1..MaxCalls]

Init ==
    /\ call_queue = [q \in QueueIds |-> AbsentRow]
    /\ agents \in [AgentIds -> AgentRows]
    /\ now = 1
    /\ sched = [p \in Procs |-> IdleProc]
    /\ dispatches = [q \in QueueIds |-> 0]
    /\ wins = [q \in QueueIds |-> 0]
    /\ incs = [q \in QueueIds |-> 0]
    /\ faults = 0
    /\ call_sessions = [s \in SessionIds |-> AbsentSession]
    /\ rooms = [s \in SessionIds |-> EmptyRoom]
    /\ xfer = [r \in Reqs |-> IdleRequest]
    /\ written = [s \in SessionIds |-> NothingWritten]
    /\ agent_instance = NewInstance
    /\ jobs = [j \in JobIds |-> NewJob]
    /\ customers = KnownCustomers
    /\ columns = [call_queue |-> [q \in QueueIds |-> NoQueueColumns],
                  call_sessions |-> [s \in SessionIds |-> NoSessionColumns]]
    /\ position = [q \in QueueIds |-> NoPosition]

SchedulerStep(p) ==
    \/ GetWaitingCalls(p)
    \/ GetAvailableAgent(p)
    \/ AssignToAgent(p)
    \/ CreateDispatch(p)
    \/ MarkAssignedAi(p)

\* scheduler processes racing on the same store, with the intake
Next ==
    \/ AddToQueue(ConcEntries, {NORMAL}) /\ UNCHANGED <<transferVars, jobVars, position>>
    \/ Tick /\ UNCHANGED <<transferVars, jobVars, position>>
    \/ \E p \in Procs : SchedulerStep(p) /\ UNCHANGED <<transferVars, jobVars, position>>

Spec == Init /\ [][Next]_vars

\* one scheduler process with the intake and the calls' cleanup
\* (mark_completed / mark_abandoned are called by the agent jobs)
NextLife ==
    \/ AddToQueue(ConcEntries, {NORMAL}) /\ UNCHANGED <<transferVars, jobVars, position>>
    \/ Tick /\ UNCHANGED <<transferVars, jobVars, position>>
    \/ SchedulerStep(1) /\ UNCHANGED <<transferVars, jobVars, position>>
    \/ \E q \in QueueIds : MarkCompleted(q) /\ UNCHANGED <<transferVars, jobVars, position>>
    \/ \E q \in QueueIds : MarkAbandoned(q) /\ UNCHANGED <<transferVars, jobVars, position>>

SpecLife == Init /\ [][NextLife]_vars

\* one scheduler process alone with the intake: what one poll cycle does
NextSolo ==
    \/ AddToQueue(MaxEntries, Priorities) /\ UNCHANGED <<transferVars, jobVars, position>>
    \/ Tick /\ UNCHANGED <<transferVars, jobVars, position>>
    \/ SchedulerStep(1) /\ UNCHANGED <<transferVars, jobVars, position>>

SpecSolo == Init /\ [][NextSolo]_vars

\* transfer requests served concurrently on the open sessions
TransferStep(r) ==
    \/ TransferCall(r)
    \/ SelectAgent(r)
    \/ ListParticipants(r)
    \/ TransferSipParticipant(r)
    \/ CreateSipParticipant(r)
    \/ WaitForAnswer(r)

NextXfer ==
    \/ CreateSession /\ UNCHANGED <<written, jobVars>>
    \/ \E s \in SessionIds : CustomerHangsUp(s) /\ UNCHANGED <<written, jobVars>>
    \/ \E r \in Reqs : TransferStep(r) /\ UNCHANGED <<written, jobVars>>
    \/ \E r \in Reqs : AgentAnswers(r) /\ UNCHANGED <<written, jobVars>>

SpecXfer == Init /\ [][NextXfer]_vars

\* one scheduler process with the intake, until its task is cancelled
NextLoop ==
    \/ AddToQueue(ConcEntries, {NORMAL}) /\ UNCHANGED <<transferVars, jobVars, position>>
    \/ Tick /\ UNCHANGED <<transferVars, jobVars, position>>
    \/ SchedulerStep(1) /\ UNCHANGED <<transferVars, jobVars, position>>
    \/ Cancel(1) /\ UNCHANGED <<transferVars, jobVars, position>>

SpecLoop == Init /\ [][NextLoop]_vars

\* the event loop resumes the scheduler whenever its awaited call has
\* returned or raised, or its sleep has expired
SpecLoopFair == SpecLoop /\ WF_vars(SchedulerStep(1) /\ UNCHANGED <<transferVars, jobVars, position>>)

\* the session updates, called in any order on the open sessions
NextSession ==
    \/ CreateSession /\ UNCHANGED <<written, jobVars>>
    \/ Tick /\ UNCHANGED <<transferVars, jobVars, position>>
    \/ \E s \in SessionIds : UpdateSessionEnd(s) /\ UNCHANGED jobVars
    \/ \E s \in SessionIds : UpdateSessionMetadata(s) /\ UNCHANGED jobVars
    \/ \E s \in SessionIds : UpdateSessionHandler(s) /\ UNCHANGED jobVars
    \/ \E s \in SessionIds : LogTransfer(s) /\ UNCHANGED jobVars

SpecSession == Init /\ [][NextSession]_vars

\* entrypoint up to the conversation: the call is on file and in the queue
OpenCall(j) ==
    \/ StartJob(j)
    \/ GetCustomerContext(j)
    \/ GetOrCreateCustomer(j)
    \/ CreateJobSession(j)
    \/ Enqueue(j)

\* the steps of entrypoint
JobStep(j) ==
    \/ OpenCall(j)
    \/ SessionStart(j)
    \/ CleanupSession(j)
    \/ CleanupQueue(j)
    \/ ErrorCleanupQueue(j)
    \/ ErrorCleanupSession(j)

\* the agent jobs of one worker process, each started for a new inbound call
NextJob ==
    \/ \E j \in JobIds : JobStep(j)
    \/ \E j \in JobIds : CancelJob(j)

SpecJob == Init /\ [][NextJob]_vars

\* the agent jobs and one scheduler on the same store, while the calls
\* last and no store or gateway call fails: the jobs enqueue the calls, the
\* scheduler's dispatches start jobs
NextFeed ==
    \/ SchedulerStep(1) /\ UNCHANGED <<faults, transferVars, jobVars, position>>
    \/ \E j \in JobIds : OpenCall(j) /\ UNCHANGED faults

SpecFeed == Init /\ [][NextFeed]_vars

\* the intake, callers leaving, and callers asking for their position
NextPos ==
    \/ AddToQueueConcurrently(ConcEntries, Priorities) /\ UNCHANGED <<transferVars, jobVars, position>>
    \/ Tick /\ UNCHANGED <<transferVars, jobVars, position>>
    \/ \E q \in QueueIds : MarkAbandoned(q) /\ UNCHANGED <<transferVars, jobVars, position>>
    \/ \E q \in QueueIds : GetQueuePosition(q) /\ UNCHANGED <<transferVars, jobVars>>

SpecPos == Init /\ [][NextPos]_vars

\* the event loop resumes a request whose awaited call returned or raised,
\* and whose sleep expired; callers, customers and agents owe nothing
SpecXferFair == SpecXfer /\ \A r \in Reqs : WF_vars(TransferStep(r) /\ UNCHANGED <<written, jobVars>>)

\* ================================================================ claims
Row(c) == call_queue[c.queue_id]

\* the poll cycle of p has processed every call it fetched
CycleDone(p) ==
    /\ sched[p].pc = "idle"
    /\ Len(sched[p].calls) > 0
    /\ Len(sched[p].log) = Len(sched[p].calls)

\* ---- C1
\* C1: of the attempts to move one queue entry from Waiting to Assigned
\* (assign_to_agent, dispatch_to_ai), made by schedulers that each read the
\* entry as Waiting, only one reports success.
C1_ExactlyOneSucceeds ==
    \A q \in QueueIds : wins[q] <= 1

\* ---- C2
\* C2: every agent's current_call_count stays within 0..max_concurrent_calls.
C2_CapacityBound ==
    \A a \in AgentIds :
        /\ 0 <= agents[a].current_call_count
        /\ agents[a].current_call_count <= agents[a].max_concurrent_calls

\* ---- C3
\* C3: one queue entry causes at most one increment of agent capacity.
C3_OneIncrementPerEntry ==
    \A q \in QueueIds : incs[q] <= 1

\* ---- C4
\* C4: assign_to_agent is all-or-nothing: its step either reports success
\* with the entry Assigned to the chosen agent and that agent's count one
\* higher, or reports failure with call_queue and agents unchanged.
C4_AssignStep(p) ==
    LET q == CurrentCall(p).queue_id
        a == sched[p].agent_id
        l == sched'[p].log
    IN  \/ /\ l[Len(l)] = "human"
           /\ call_queue'[q].status = ASSIGNED
           /\ call_queue'[q].assigned_agent_id = a
           /\ agents'[a].current_call_count = agents[a].current_call_count + 1
           /\ \A r \in QueueIds \ {q} : call_queue'[r] = call_queue[r]
           /\ \A b \in AgentIds \ {a} : agents'[b] = agents[b]
        \/ /\ l[Len(l)] \in {"assign_failed", "aborted"}
           /\ call_queue' = call_queue
           /\ agents' = agents

C4_AllOrNothing ==
    [][\A p \in Procs :
          (sched[p].pc = "assign" /\ sched'[p] # sched[p]) => C4_AssignStep(p)]_vars

\* a cycle in which one assignment failed and another one succeeded
C4_Witness ==
    \E p \in Procs : \E i, j \in DOMAIN sched[p].log :
        /\ sched[p].log[i] = "assign_failed"
        /\ Row(sched[p].calls[i]).status = WAITING
        /\ Row(sched[p].calls[i]).assigned_agent_id = NULL
        /\ sched[p].log[j] = "human"
        /\ Row(sched[p].calls[j]).status = ASSIGNED
        /\ Row(sched[p].calls[j]).assigned_agent_id # NULL
        /\ agents[Row(sched[p].calls[j]).assigned_agent_id].current_call_count = 1

\* ---- C5
\* the service order of the specification: priority descending, then
\* creation time ascending; a is not to be served after b
RanksNotAfter(a, b) ==
    \/ a.priority > b.priority
    \/ a.priority = b.priority /\ a.join_time <= b.join_time

\* free agent slots in the store
FreeSlots(a) ==
    IF Eligible(a)
    THEN agents[a].max_concurrent_calls - agents[a].current_call_count
    ELSE 0

RECURSIVE SumSlots(_)
SumSlots(S) ==
    IF S = {} THEN 0
    ELSE LET a == CHOOSE x \in S : TRUE IN FreeSlots(a) + SumSlots(S \ {a})

Humans(p) == Cardinality({i \in DOMAIN sched[p].log : sched[p].log[i] = "human"})

\* the free slots when the cycle of p (the only scheduler running) began
SlotsAtStart(p) == SumSlots(AgentIds) + Humans(p)

\* entries 1, 2, 3 created in that order with priorities Low, High, Normal,
\* all three fetched by the cycle, which began with one free agent slot
C5_Scenario(p) ==
    /\ CycleDone(p)
    /\ SlotsAtStart(p) = 1
    /\ {sched[p].calls[i].queue_id : i \in DOMAIN sched[p].calls} = {1, 2, 3}
    /\ call_queue[1].priority = LOW
    /\ call_queue[2].priority = HIGH
    /\ call_queue[3].priority = NORMAL

\* a cycle attempts the fetched calls in service order: the list is in
\* service order and the calls processed so far are a prefix of it
C5_InOrder(p) ==
    /\ \A i, j \in DOMAIN sched[p].calls :
          i < j => RanksNotAfter(sched[p].calls[i], sched[p].calls[j])
    /\ sched[p].pc # "idle" => Len(sched[p].log) = sched[p].idx - 1
    /\ Len(sched[p].log) <= Len(sched[p].calls)

HighHasTheAgent ==
    /\ call_queue[2].assigned_agent_id # NULL
    /\ call_queue[1].assigned_agent_id = NULL
    /\ call_queue[3].assigned_agent_id = NULL

ZeroEligible(p) ==
    /\ \A a \in AgentIds : ~Eligible(a)
    /\ \A i \in DOMAIN sched[p].log : sched[p].log[i] \notin {"human", "assign_failed"}

AssignedToAi(row) ==
    /\ row.status = ASSIGNED
    /\ row.assigned_agent_id = NULL
    /\ row.assigned_at # NULL

\* C6 as stated: with zero eligible agents and a gateway dispatch that
\* succeeds, every entry Waiting at the start of a poll cycle is Assigned
\* with assigned_agent_id = null at the end of that cycle.
C6_FallbackAssigns ==
    \A p \in Procs :
        (CycleDone(p) /\ ZeroEligible(p)) =>
            \A i \in DOMAIN sched[p].log :
                sched[p].log[i] \in {"ai", "mark_failed", "close_failed"} => AssignedToAi(Row(sched[p].calls[i]))

\* ---- C7
\* C7: an entry whose gateway dispatch failed is left as it was by the cycle:
\* Waiting, assigned_at and assigned_agent_id unset, not Assigned, not Abandoned.
C7_FailedDispatchLeavesWaiting ==
    \A p \in Procs : \A i \in DOMAIN sched[p].log :
        sched[p].log[i] = "gateway_failed" =>
            /\ Row(sched[p].calls[i]).status = WAITING
            /\ Row(sched[p].calls[i]).assigned_at = NULL
            /\ Row(sched[p].calls[i]).assigned_agent_id = NULL
            /\ Row(sched[p].calls[i]).abandoned_at = NULL
            /\ Row(sched[p].calls[i]).completed_at = NULL

C7_Witness ==
    \E i \in DOMAIN sched[1].log :
        /\ sched[1].log[i] = "gateway_failed"
        /\ Row(sched[1].calls[i]).status = WAITING
        /\ dispatches[sched[1].calls[i].queue_id] = 0

\* ---- C8
\* C8: an entry whose human assignment failed is handed to the automated
\* fallback in the same cycle, so "assignment failed" is never the outcome
\* the cycle ends with for an entry.
C8_FallbackAfterFailedAssign ==
    \A p \in Procs : \A i \in DOMAIN sched[p].log :
        sched[p].log[i] # "assign_failed"

\* ---- C9
\* C9: for each queue entry the gateway's automated-handler dispatch is
\* performed at most once, over all poll cycles and scheduler processes.
C9_AtMostOneDispatch ==
    \A q \in QueueIds : dispatches[q] <= 1

\* ---- C10
ValidTransitions ==
    {<<WAITING, ASSIGNED>>, <<WAITING, ABANDONED>>,
     <<ASSIGNED, COMPLETED>>, <<ASSIGNED, ABANDONED>>}

\* C10: every status change of a queue entry is Waiting->Assigned,
\* Waiting->Abandoned, Assigned->Completed or Assigned->Abandoned.
C10_OnlyValidTransitions ==
    [][\A q \in QueueIds :
          (call_queue[q].status # ABSENT /\ call_queue'[q].status # call_queue[q].status)
              => <<call_queue[q].status, call_queue'[q].status>> \in ValidTransitions]_vars

\* ---- C11
Terminal == {COMPLETED, ABANDONED}

\* C11: mark_completed / mark_abandoned called on an entry that is already
\* Completed or Abandoned is a no-op: a step that takes a terminal entry to
\* a terminal status leaves its status, completed_at and abandoned_at as
\* they were (mark_abandoned on a Completed entry leaves it Completed).
C11_TerminalIsFrozen ==
    [][\A q \in QueueIds :
          (call_queue[q].status \in Terminal /\ call_queue'[q].status \in Terminal)
              => /\ call_queue'[q].status = call_queue[q].status
                 /\ call_queue'[q].completed_at = call_queue[q].completed_at
                 /\ call_queue'[q].abandoned_at = call_queue[q].abandoned_at]_vars

\* ---- C12
\* C12: mark_completed is idempotent: a second mark_completed on an entry
\* that a first one completed leaves status and completed_at as the first
\* call wrote them.
C12_CompletedTwiceIsOnce ==
    [][\A q \in QueueIds :
          (call_queue[q].status = COMPLETED /\ call_queue'[q].status = COMPLETED)
              => call_queue'[q].completed_at = call_queue[q].completed_at]_vars

\* ---- C13
\* an assign_to_agent committed for the entry
WentToHuman(q) == incs[q] > 0

\* C13 as stated: assigned_agent_id is set exactly when the entry is
\* Assigned and the assignment went to a human agent; in every other
\* status, and after the automated fallback, it is null.
C13_AgentRefIffAssignedToHuman ==
    \A q \in QueueIds :
        call_queue[q].assigned_agent_id # NULL
            <=> (call_queue[q].status = ASSIGNED /\ WentToHuman(q))

\* C13 amended: assigned_agent_id is set exactly when an assignment to a
\* human agent was committed for the entry, and it is kept when the entry
\* is later Completed or Abandoned; a Waiting entry and an entry that only
\* the automated fallback assigned have it null.
C13_AgentRefIffWentToHuman ==
    \A q \in QueueIds :
        /\ call_queue[q].assigned_agent_id # NULL <=> WentToHuman(q)
        /\ call_queue[q].assigned_agent_id \in AgentIds \cup {NULL}
        /\ call_queue[q].status \in {WAITING, ABSENT} => call_queue[q].assigned_agent_id = NULL

\* one entry completed after a human took it, another one taken by the fallback
C13_Witness ==
    \E q, r \in QueueIds :
        /\ call_queue[q].status = COMPLETED
        /\ call_queue[q].assigned_agent_id # NULL
        /\ call_queue[r].status = ASSIGNED
        /\ call_queue[r].assigned_agent_id = NULL
        /\ wins[r] = 1

\* ---- C14
\* C14: when a call assigned to a human agent ends (its entry goes from
\* Assigned to Completed or Abandoned), that agent's current_call_count is
\* one lower after the same step.
C14_EndReleasesCapacity ==
    [][\A q \in QueueIds :
          (/\ call_queue[q].status = ASSIGNED
           /\ call_queue[q].assigned_agent_id # NULL
           /\ call_queue'[q].status \in Terminal)
              => agents'[call_queue[q].assigned_agent_id].current_call_count
                    = agents[call_queue[q].assigned_agent_id].current_call_count - 1]_vars

\* ---- C15
\* C15: an entry goes to the automated fallback only if, when the agent
\* lookup for it ran, no agent was online with current_call_count below
\* max_concurrent_calls; a failed lookup does not count as "no agent".
C15_FallbackOnlyWithoutAgent ==
    [][\A p \in Procs :
          (sched[p].pc = "pick" /\ sched'[p].pc = "dispatch")
              => \A a \in AgentIds : ~Eligible(a)]_vars

\* ---- C16
Session(x) == call_sessions[x.session_id]

\* C16: after a transfer request (cold or warm) that reported success, the
\* session has handled_by = human, a transfer_count one higher than when the
\* request began, and agent_id set to the target agent.
C16_SuccessUpdatesSession ==
    \A r \in Reqs :
        Success(xfer[r]) =>
            /\ Session(xfer[r]).handled_by = HUMAN
            /\ Session(xfer[r]).transfer_count = xfer[r].before.transfer_count + 1
            /\ Session(xfer[r]).agent_id = xfer[r].agent_id

\* ---- C17
\* C17: the step in which the consultation dial of a warm transfer fails
\* leaves every session as it was (the request's session still as it was
\* when the request began: handled by ai, same transfer_count and agent_id,
\* no metadata) and returns a result that is not a success.
C17_FailedDialLeavesSession ==
    [][\A r \in Reqs :
          (xfer[r].pc = "dial" /\ xfer'[r].pc = "done")
              => /\ call_sessions' = call_sessions
                 /\ call_sessions'[xfer[r].session_id] = xfer[r].before
                 /\ xfer[r].before.handled_by = AI
                 /\ xfer'[r].result = "gateway_error"
                 /\ ~Success(xfer'[r])]_vars

C17_Witness ==
    \E r \in Reqs :
        /\ xfer[r].transfer_type = WARM
        /\ xfer[r].pc = "done"
        /\ xfer[r].result = "gateway_error"
        /\ xfer[r].attempts = 1
        /\ Session(xfer[r]) = NewSession(Session(xfer[r]).start_time)

\* ---- C18
\* C18: a cold transfer that finds no customer participant in the room
\* returns a failure in that step, has made no transfer-participant call,
\* and leaves rooms, sessions, queue entries and agents unchanged.
C18_ColdFailsClosed ==
    [][\A r \in Reqs :
          (/\ xfer[r].pc = "list"
           /\ rooms[xfer[r].session_id].participants \cap SipIdentities = {}
           /\ xfer'[r] # xfer[r])
              => /\ xfer'[r].pc = "done"
                 /\ ~Success(xfer'[r])
                 /\ xfer'[r].attempts = 0
                 /\ rooms' = rooms
                 /\ call_sessions' = call_sessions
                 /\ call_queue' = call_queue
                 /\ agents' = agents]_vars

C18_Witness ==
    \E r \in Reqs :
        /\ xfer[r].transfer_type = COLD
        /\ xfer[r].result = "no_customer"
        /\ xfer[r].attempts = 0
        /\ rooms[xfer[r].session_id].refers = 0
        /\ Session(xfer[r]) = NewSession(Session(xfer[r]).start_time)

\* ---- C19
\* C19: a warm transfer has reported success only if the dialled agent has
\* picked up the consultation leg.
C19_SuccessOnlyAfterPickup ==
    \A r \in Reqs :
        (xfer[r].transfer_type = WARM /\ Success(xfer[r])) => xfer[r].leg = "answered"

\* ---- C20
\* C20: every warm_transfer invocation (in its dial or in its wait)
\* eventually returns a result.
C20_WarmTransferReturns ==
    \A r \in Reqs : (xfer[r].pc \in {"dial", "wait"}) ~> (xfer[r].pc = "done")

\* a warm transfer returned although the agent never picked up
C20_Witness ==
    \E r \in Reqs :
        /\ xfer[r].transfer_type = WARM
        /\ xfer[r].pc = "done"
        /\ xfer[r].result = "ok"
        /\ xfer[r].leg = "ringing"

\* ---- C21
\* C21: whatever the order in which a transfer's session update
\* (log_transfer, update_session_handler) and update_session_end commit on
\* one session, the session holds what the committed updates wrote: the end
\* time of the last end with the duration counted from start_time, the
\* handler and agent of the last handler update, a transfer_count that
\* counts every committed transfer, and the metadata of both.
C21_TransferAndEndSerial ==
    \A s \in SessionIds :
        call_sessions[s].handled_by # ABSENT =>
            /\ call_sessions[s].transfer_count = written[s].transfers
            /\ call_sessions[s].handled_by = written[s].handled_by
            /\ call_sessions[s].agent_id = written[s].agent_id
            /\ call_sessions[s].end_time = written[s].end_time
            /\ call_sessions[s].end_time # NULL =>
                  call_sessions[s].duration_seconds
                      = call_sessions[s].end_time - call_sessions[s].start_time
            /\ call_sessions[s].call_metadata = written[s].call_metadata

\* a session that was transferred and ended, in either order
C21_Witness ==
    \E s \in SessionIds :
        /\ call_sessions[s].handled_by = HUMAN
        /\ call_sessions[s].transfer_count = 1
        /\ call_sessions[s].agent_id \in AgentIds
        /\ call_sessions[s].end_time # NULL
        /\ {"completed_at", "transfer_time"} \subseteq DOMAIN call_sessions[s].call_metadata
        /\ call_sessions[s].call_metadata["transfer_time"]
              > call_sessions[s].call_metadata["completed_at"]

\* ---- C24
\* C24: update_session_end on a session whose end_time is set is a no-op:
\* no step changes an end_time that is set, nor the duration_seconds
\* written with it.
C24_EndIsWrittenOnce ==
    [][\A s \in SessionIds :
          call_sessions[s].end_time # NULL
              => /\ call_sessions'[s].end_time = call_sessions[s].end_time
                 /\ call_sessions'[s].duration_seconds = call_sessions[s].duration_seconds]_vars

\* ---- C25
\* C25: a handler update with the handler the session already has (human,
\* same agent) does not increment transfer_count again.
C25_SameHandlerIsNoOp ==
    [][\A s \in SessionIds :
          (/\ call_sessions[s].handled_by = HUMAN
           /\ call_sessions'[s].handled_by = HUMAN
           /\ call_sessions'[s].agent_id = call_sessions[s].agent_id)
              => call_sessions'[s].transfer_count = call_sessions[s].transfer_count]_vars

\* ---- C26
\* C26: every step that changes handled_by to a different value (ai to
\* human or human to ai) increments transfer_count by exactly one.
C26_HandlerChangeCounts ==
    [][\A s \in SessionIds :
          (/\ call_sessions[s].handled_by \in {AI, HUMAN}
           /\ call_sessions'[s].handled_by \in {AI, HUMAN}
           /\ call_sessions'[s].handled_by # call_sessions[s].handled_by)
              => call_sessions'[s].transfer_count = call_sessions[s].transfer_count + 1]_vars

\* ---- C22
\* C22: a transfer request makes at most one gateway transfer / dial
\* attempt; an attempt that fails ends the request in the same step, and a
\* request that has returned makes no further attempt.
C22_AtMostOneAttempt ==
    [][\A r \in Reqs :
          /\ xfer'[r].attempts <= 1
          /\ (xfer'[r].attempts > xfer[r].attempts /\ xfer'[r].leg = "none" /\ ~Success(xfer'[r]))
                => (xfer'[r].pc = "done" /\ xfer'[r].result = "gateway_error")
          /\ xfer[r].pc = "done"
                => (xfer'[r].pc = "done" /\ xfer'[r].attempts = xfer[r].attempts
                    /\ xfer'[r].result = xfer[r].result)]_vars

\* a cold transfer whose one attempt the gateway failed, the customer still in the room
C22_Witness ==
    \E r \in Reqs :
        /\ xfer[r].transfer_type = COLD
        /\ xfer[r].pc = "done"
        /\ xfer[r].result = "gateway_error"
        /\ xfer[r].attempts = 1
        /\ rooms[xfer[r].session_id].refers = 0
        /\ rooms[xfer[r].session_id].participants \cap SipIdentities # {}

\* ---- C23
\* C23: after a transfer to agent T that reported success, T's
\* current_call_count counts the transferred call and a queue entry has
\* assigned_agent_id = T.
C23_SuccessUpdatesQueueAndAgent ==
    \A r \in Reqs :
        Success(xfer[r]) =>
            /\ agents[xfer[r].agent_id].current_call_count >= 1
            /\ \E q \in QueueIds : call_queue[q].assigned_agent_id = xfer[r].agent_id

\* ---- C27
\* the step is a failed read of the waiting entries by the idle process p
\* (the only process running): a failure was injected and no other process
\* changed its position
FailedRead(p) ==
    /\ sched[p].pc = "idle"
    /\ faults' = faults + 1
    /\ \A o \in Procs \ {p} : sched'[o] = sched[o]

\* C27: a poll cycle whose read of the waiting entries fails ends in that
\* step without any effect: no entry or agent row is written, no dispatch
\* is issued, and the process holds no calls, so that its next cycle
\* starts from a fresh read.
C27_FailedReadHasNoEffect ==
    [][\A p \in Procs :
          FailedRead(p) =>
              /\ call_queue' = call_queue
              /\ agents' = agents
              /\ dispatches' = dispatches
              /\ sched'[p] = IdleProc]_vars

\* the one failure went into a read: entries are waiting and nothing was
\* written, dispatched or fetched
C27_Witness ==
    /\ faults = 1
    /\ \E q \in QueueIds : call_queue[q].status = WAITING
    /\ \A q \in QueueIds : call_queue[q].status \in {WAITING, ABSENT} /\ dispatches[q] = 0
    /\ \A p \in Procs : sched[p] = IdleProc

\* ---- C28
RunningPcs == {"idle", "pick", "assign", "dispatch", "mark"}

\* C28: no error raised in a poll cycle stops the scheduler loop: a
\* scheduler process is always inside a cycle, where its next step can be
\* taken, or between two cycles, where the next cycle starts as soon as an
\* entry is waiting.
C28_LoopSurvivesErrors ==
    \A p \in Procs :
        /\ sched[p].pc \in RunningPcs
        /\ sched[p].pc # "idle" => ENABLED SchedulerStep(p)
        /\ (sched[p].pc = "idle" /\ \E q \in QueueIds : call_queue[q].status = WAITING)
              => ENABLED GetWaitingCalls(p)

\* after the one failure, a later cycle has assigned the only entry
C28_Witness ==
    /\ faults = 1
    /\ sched[1].pc = "idle"
    /\ sched[1].log = <<"human">>
    /\ call_queue[1].status = ASSIGNED
    /\ wins[1] = 1
    /\ \A q \in QueueIds \ {1} : call_queue[q].status = ABSENT

\* ---- C29
Fetched(sp) == {sp.calls[i].queue_id : i \in DOMAIN sp.calls}

\* entry e was Waiting when the last cycle of p ended: it is Waiting, and
\* that cycle assigned a call after e was created
WaitingSinceLastCycle(p, e) ==
    /\ CycleDone(p)
    /\ call_queue[e].status = WAITING
    /\ \E i \in DOMAIN sched[p].calls :
          Row(sched[p].calls[i]).assigned_at > call_queue[e].join_time

\* the step starts the next cycle of the idle process p
StartsCycle(p) ==
    /\ sched[p].pc = "idle"
    /\ sched'[p] # sched[p] \/ FailedRead(p)

AttemptedUnlessAborted(p) ==
    (sched[p].pc = "idle" /\ Len(sched[p].calls) > 0) =>
        \/ Len(sched[p].log) = Len(sched[p].calls)
        \/ sched[p].log[Len(sched[p].log)] = "aborted"

\* a read that succeeds fetches every Waiting entry
ReadFetchesAllWaiting(p) ==
    (sched[p].pc = "idle" /\ sched'[p].pc = "pick") =>
        Fetched(sched'[p]) = {q \in QueueIds : call_queue[q].status = WAITING}

C30_CancelledCycleCompletes ==
    \A p \in Procs :
        sched[p].pc = "cancelled" => Len(sched[p].log) = Len(sched[p].calls)

\* ---- C31
\* C31: a cancellation of the poll loop leaves no assignment partially
\* applied: once the loop was cancelled (no store or gateway call having
\* failed), no entry is Assigned to an agent without that agent's count
\* having been incremented for it, no count was incremented for an entry
\* that is not Assigned, and no automated handler was dispatched for an
\* entry that is still Waiting.
C31_CancelLeavesNoPartialAssignment ==
    \A p \in Procs :
        (sched[p].pc = "cancelled" /\ faults = 0) =>
            \A q \in QueueIds :
                /\ (call_queue[q].status = ASSIGNED /\ call_queue[q].assigned_agent_id # NULL)
                      => incs[q] > 0
                /\ incs[q] > 0 => call_queue[q].status = ASSIGNED
                /\ dispatches[q] > 0 => call_queue[q].status # WAITING

\* ---- C32
\* agent a is online with spare capacity, written from the agents table
HasCapacity(a) ==
    /\ agents[a].status = ONLINE
    /\ agents[a].current_call_count < agents[a].max_concurrent_calls

\* the agent lookup of p returns in this step
LookupReturns(p) ==
    sched[p].pc = "pick" /\ sched'[p].pc \in {"assign", "dispatch"}

\* when the lookup returns an agent, it has capacity and no agent with
\* capacity carries fewer calls
ChosenIsLeastLoaded ==
    [][\A p \in Procs :
          (LookupReturns(p) /\ sched'[p].pc = "assign") =>
              /\ HasCapacity(sched'[p].agent_id)
              /\ \A b \in AgentIds : HasCapacity(b) =>
                    agents[sched'[p].agent_id].current_call_count
                        <= agents[b].current_call_count]_vars

\* C32: get_available_agent returns an agent of minimal current_call_count
\* among the online agents below their max_concurrent_calls, and returns
\* none exactly when there is no such agent.
C32_LeastLoadedOrNone ==
    [][\A p \in Procs :
          LookupReturns(p) =>
              /\ sched'[p].pc = "assign" =>
                    /\ HasCapacity(sched'[p].agent_id)
                    /\ \A b \in AgentIds : HasCapacity(b) =>
                          agents[sched'[p].agent_id].current_call_count
                              <= agents[b].current_call_count
              /\ sched'[p].pc = "dispatch" <=> ~ \E a \in AgentIds : HasCapacity(a)]_vars

\* ---- C33
\* C33: merging metadata into a session is additive: every key that a
\* committed update_session_end, update_session_metadata or log_transfer
\* wrote is present in call_metadata with the value of the last write to it.
C33_MergeIsAdditive ==
    \A s \in SessionIds :
        \A k \in DOMAIN written[s].call_metadata :
            /\ k \in DOMAIN call_sessions[s].call_metadata
            /\ call_sessions[s].call_metadata[k] = written[s].call_metadata[k]

\* the three operations wrote keys of their own, and update_session_metadata
\* overwrote the completed_at that update_session_end had written
C33_Witness ==
    \E s \in SessionIds :
        /\ faults = 0
        /\ call_sessions[s].end_time # NULL
        /\ {"completed_at", "sentiment", "transfer_type"}
              \subseteq DOMAIN call_sessions[s].call_metadata
        /\ call_sessions[s].call_metadata["completed_at"] = NULL

\* ---- C34
\* the queue entries of call room r
EntriesOf(r) ==
    {q \in QueueIds : call_queue[q].status # ABSENT /\ columns.call_queue[q].room_name = r}

\* the automated-handler dispatches created for call room r
RoomDispatches(r) ==
    Cardinality({d \in QueueIds \X (1..NumJobs) :
                    d[1] \in EntriesOf(r) /\ d[2] <= dispatches[d[1]]})

\* C34: dispatching the automated handler does not feed the queue: a call
\* room has at most one queue entry and gets at most one automated-handler
\* dispatch (no store or gateway call failing).
C34_DispatchDoesNotFeedQueue ==
    \A r \in RoomNames :
        /\ Cardinality(EntriesOf(r)) <= 1
        /\ RoomDispatches(r) <= 1

\* ---- C35
\* job j runs alone: no other job was started
Alone(j) == \A k \in JobIds \ {j} : jobs[k].pc = "new"

\* job j opened a session and enqueued an entry
Opened(j) == jobs[j].session_id # NULL /\ jobs[j].queue_id # NULL

\* C35: a job that opened a session and enqueued an entry has, once it is
\* over (normal end, exception or cancellation), recorded the end of its
\* session and brought its entry to a terminal state: Completed on normal
\* end, Abandoned on error (stated for a job running alone, no store call
\* failing).
C35_JobFinalizes ==
    \A j \in JobIds :
        (jobs[j].pc \in {"done", "cancelled"} /\ Opened(j) /\ Alone(j) /\ faults = 0) =>
            /\ call_sessions[jobs[j].session_id].end_time # NULL
            /\ call_queue[jobs[j].queue_id].status \in Terminal
            /\ jobs[j].pc = "done" =>
                  call_queue[jobs[j].queue_id].status
                      = IF jobs[j].failed THEN ABANDONED ELSE COMPLETED

\* ---- C36
\* C36: a job that failed with an exception after its session was created
\* has ended the session with an "error" key in call_metadata and marked its
\* queue entry, if it created one, Abandoned (stated for a job running alone).
C36_FailedJobLeavesAuditTrail ==
    \A j \in JobIds :
        (jobs[j].pc = "done" /\ jobs[j].failed /\ jobs[j].session_id # NULL /\ Alone(j)) =>
            /\ call_sessions[jobs[j].session_id].end_time # NULL
            /\ "error" \in DOMAIN call_sessions[jobs[j].session_id].call_metadata
            /\ jobs[j].queue_id # NULL =>
                  call_queue[jobs[j].queue_id].status = ABANDONED

\* ---- C38
\* every job but j is over or was never started
Sequential(j) == \A k \in JobIds \ {j} : jobs[k].pc \in {"new", "done"}

\* C38: jobs run one after the other through the same agent instance do not
\* share call state: the session and the queue entry a job created carry the
\* customer id on file for the job's phone number, and a job that ended
\* normally has ended its own session and completed its own entry (no store
\* call failing).
C38_NoLeakBetweenJobs ==
    \A j \in JobIds :
        (Sequential(j) /\ faults = 0) =>
            /\ jobs[j].session_id # NULL =>
                  columns.call_sessions[jobs[j].session_id].customer_id
                      = customers[jobs[j].phone_number]
            /\ jobs[j].queue_id # NULL =>
                  columns.call_queue[jobs[j].queue_id].customer_id
                      = customers[jobs[j].phone_number]
            /\ (jobs[j].pc = "done" /\ ~jobs[j].failed /\ Opened(j)) =>
                  /\ call_sessions[jobs[j].session_id].end_time # NULL
                  /\ call_queue[jobs[j].queue_id].status = COMPLETED

\* ---- C37
\* C37: get_queue_position agrees with the service order: whenever it
\* returns a position for a Waiting entry e, e is at that 1-based index of
\* the list get_waiting_calls returns in the same state of the store
\* (stated for an entry whose priority and join_time no other Waiting entry
\* shares, so that the list has one place for it).
C37_PositionIsListIndex ==
    [][\A e \in QueueIds :
          (/\ call_queue[e].status = WAITING
           /\ position'[e] # position[e]
           /\ faults' = faults
           /\ \A q \in QueueIds \ {e} :
                 call_queue[q].status = WAITING =>
                    \/ call_queue[q].priority # call_queue[e].priority
                    \/ call_queue[q].join_time # call_queue[e].join_time)
              => \A s \in WaitingCalls :
                    /\ position'[e] \in DOMAIN s
                    /\ s[position'[e]].queue_id = e]_vars

====
